---- MODULE Spec2Model ----
(***************************************************************************)
(* Model of cantypes: the acceptance-filter algebra (src/src/filter.rs),   *)
(* the frame model (src/src/frame.rs) and the identifier-width constants   *)
(* (src/src/constants.rs).                                                 *)
(*                                                                         *)
(* A u32 is modelled as the set of its set bit positions, a subset of      *)
(* 0..31: `&` is intersection, `|` is union, `!` is the complement within  *)
(* 0..31 and `1 << i` is {i}.  A u8 is a number in 0..255.                 *)
(***************************************************************************)
EXTENDS Integers, FiniteSets, Sequences, TLC

VARIABLES mask_type, fa, fb, nadds, last, frame, call, text

vars == <<mask_type, fa, fb, nadds, last, frame, call, text>>

filterVars == <<mask_type, fa, fb, nadds, last>>

frameVars == <<frame, call, text>>

(***************************************************************************)
(* u32 arithmetic on bit sets                                              *)
(***************************************************************************)
U32Width == 32

U32Bits == 0 .. (U32Width - 1)

\* the bit set of a number below 2^31
Bits(n) == {i \in 0 .. 30 : (n \div (2 ^ i)) % 2 = 1}

BitAnd(a, b) == a \cap b

BitOr(a, b) == a \cup b

BitNot(a) == U32Bits \ a

Shl1(i) == {i}

Zero == {}

(***************************************************************************)
(* src/src/constants.rs                                                    *)
(***************************************************************************)
STANDARD_FRAME_ID_MASK == Bits(2047)

STANDARD_FRAME_ID_LENGTH == 11

EXTENDED_FRAME_ID_MASK == Bits(536870911)

EXTENDED_FRAME_ID_LENGTH == 29

(***************************************************************************)
(* Inputs                                                                  *)
(***************************************************************************)
\* identifiers 0 .. MaxLowId are among the sampled identifiers
MaxLowId == 0

\* candidates 0 .. MaxLowCand are among the sampled candidates
MaxLowCand == 1

\* the number of `+` a run applies
MaxAdds == 2

MaskTypes == {"Standard", "Extended"}

\* 0xFFFFFABD has bits above either width
LowIds == {Bits(n) : n \in 0 .. MaxLowId} \cup {U32Bits \ Bits(1346)}

\* 0x7FF, 0x00F
StandardIds == {Bits(2047), Bits(15)} \cup LowIds

\* 0x1FFFCCFF, 0x1FFF33FF
ExtendedIds == {Bits(536857855), Bits(536818687)} \cup LowIds

Ids(t) == IF t = "Standard" THEN StandardIds ELSE ExtendedIds

LowCandidates == {Bits(n) : n \in 0 .. MaxLowCand} \cup {U32Bits}

\* besides the identifiers: each identifier cut to the width, 0xFFFFFFFF, and
\* 0x800, the first value above the width
StandardCandidates ==
    StandardIds \cup {x \cap STANDARD_FRAME_ID_MASK : x \in StandardIds}
                \cup LowCandidates \cup {Bits(2048)}

\* the same, with 0x20000000 above the width
ExtendedCandidates ==
    ExtendedIds \cup {x \cap EXTENDED_FRAME_ID_MASK : x \in ExtendedIds}
                \cup LowCandidates \cup {Bits(536870912)}

Candidates(t) == IF t = "Standard" THEN StandardCandidates ELSE ExtendedCandidates

(***************************************************************************)
(* src/src/filter.rs: StandardCanIdFilter                                  *)
(***************************************************************************)
Filter(t, id, m) == [mask_type |-> t, can_id |-> id, mask |-> m]

Standard_from_can_id(can_id) ==
    Filter("Standard", BitAnd(can_id, STANDARD_FRAME_ID_MASK), STANDARD_FRAME_ID_MASK)

\* mutant: the mask of an exact filter
Standard_accept_all_FullMask == Filter("Standard", Zero, STANDARD_FRAME_ID_MASK)

Standard_accept_all == Filter("Standard", Zero, Zero)

\* mutant: the candidate is compared unmasked
Standard_match_can_id_Unmasked(self, can_id) ==
    BitAnd(self.can_id, self.mask) = can_id

Standard_match_can_id(self, can_id) ==
    BitAnd(self.can_id, self.mask) = BitAnd(can_id, self.mask)

\* the loop of weight: counter after the iterations i, i + 1, ..., len - 1
RECURSIVE WeightLoop(_, _, _, _)
WeightLoop(m, i, len, counter) ==
    IF i >= len
    THEN counter
    ELSE WeightLoop(m, i + 1, len,
                    IF BitAnd(m, Shl1(i)) = Zero THEN counter + 1 ELSE counter)

\* mutant: the loop starts at bit 1
Standard_weight_counter_FromOne(self) ==
    WeightLoop(self.mask, 1, STANDARD_FRAME_ID_LENGTH, 0)

Standard_weight_counter(self) ==
    WeightLoop(self.mask, 0, STANDARD_FRAME_ID_LENGTH, 0)

\* 1 << counter as a u32; the shift is defined for counter < 32 only
Standard_weight(self) == 2 ^ Standard_weight_counter(self)

\* mutant: the mask is not cut to the width
Standard_add_NoWidthMask(self, rhs) ==
    LET left_can_id_filtered == BitAnd(self.can_id, self.mask)
        right_can_id_filtered == BitAnd(rhs.can_id, rhs.mask)
        mask == BitAnd(BitOr(BitNot(left_can_id_filtered), right_can_id_filtered),
                       BitOr(BitNot(right_can_id_filtered), left_can_id_filtered))
    IN  Filter("Standard", self.can_id, mask)

Standard_add(self, rhs) ==
    LET left_can_id_filtered == BitAnd(self.can_id, self.mask)
        right_can_id_filtered == BitAnd(rhs.can_id, rhs.mask)
        mask == BitAnd(BitOr(BitNot(left_can_id_filtered), right_can_id_filtered),
                       BitOr(BitNot(right_can_id_filtered), left_can_id_filtered))
    IN  Filter("Standard", self.can_id, BitAnd(mask, STANDARD_FRAME_ID_MASK))

\* impl Add<&StandardCanIdFilter> for StandardCanIdFilter
Standard_add_owned_ref(self, rhs) == Standard_add(self, rhs)

\* impl Add<StandardCanIdFilter> for StandardCanIdFilter
Standard_add_owned(self, rhs) == Standard_add(self, rhs)

(***************************************************************************)
(* src/src/filter.rs: ExtendedCanIdFilter                                  *)
(***************************************************************************)
Extended_from_can_id(can_id) ==
    Filter("Extended", BitAnd(can_id, EXTENDED_FRAME_ID_MASK), EXTENDED_FRAME_ID_MASK)

Extended_accept_all == Filter("Extended", Zero, Zero)

Extended_match_can_id(self, can_id) ==
    BitAnd(self.can_id, self.mask) = BitAnd(can_id, self.mask)

Extended_weight_counter(self) ==
    WeightLoop(self.mask, 0, EXTENDED_FRAME_ID_LENGTH, 0)

Extended_weight(self) == 2 ^ Extended_weight_counter(self)

\* mutant: the second factor of the mask is left out
Extended_add_HalfMask(self, rhs) ==
    LET left_can_id_filtered == BitAnd(self.can_id, self.mask)
        right_can_id_filtered == BitAnd(rhs.can_id, rhs.mask)
        mask == BitOr(BitNot(left_can_id_filtered), right_can_id_filtered)
    IN  Filter("Extended", self.can_id, BitAnd(mask, EXTENDED_FRAME_ID_MASK))

Extended_add(self, rhs) ==
    LET left_can_id_filtered == BitAnd(self.can_id, self.mask)
        right_can_id_filtered == BitAnd(rhs.can_id, rhs.mask)
        mask == BitAnd(BitOr(BitNot(left_can_id_filtered), right_can_id_filtered),
                       BitOr(BitNot(right_can_id_filtered), left_can_id_filtered))
    IN  Filter("Extended", self.can_id, BitAnd(mask, EXTENDED_FRAME_ID_MASK))

Extended_add_owned_ref(self, rhs) == Extended_add(self, rhs)

Extended_add_owned(self, rhs) == Extended_add(self, rhs)

(***************************************************************************)
(* Dispatch on the filter type (trait CanIdFilter and the Add impls)       *)
(***************************************************************************)
from_can_id(t, can_id) ==
    IF t = "Standard" THEN Standard_from_can_id(can_id) ELSE Extended_from_can_id(can_id)

accept_all(t) ==
    IF t = "Standard" THEN Standard_accept_all ELSE Extended_accept_all

match_can_id(f, can_id) ==
    IF f.mask_type = "Standard"
    THEN Standard_match_can_id(f, can_id)
    ELSE Extended_match_can_id(f, can_id)

weight_counter(f) ==
    IF f.mask_type = "Standard"
    THEN Standard_weight_counter(f)
    ELSE Extended_weight_counter(f)

weight(f) ==
    IF f.mask_type = "Standard" THEN Standard_weight(f) ELSE Extended_weight(f)

\* the three `+` impls of one type
add(a, b) ==
    IF a.mask_type = "Standard"
    THEN {Standard_add(a, b), Standard_add_owned_ref(a, b), Standard_add_owned(a, b)}
    ELSE {Extended_add(a, b), Extended_add_owned_ref(a, b), Extended_add_owned(a, b)}

FRAME_ID_MASK(t) ==
    IF t = "Standard" THEN STANDARD_FRAME_ID_MASK ELSE EXTENDED_FRAME_ID_MASK

FRAME_ID_LENGTH(t) ==
    IF t = "Standard" THEN STANDARD_FRAME_ID_LENGTH ELSE EXTENDED_FRAME_ID_LENGTH

(***************************************************************************)
(* The filter program: two filter values fa and fb of one type, the number *)
(* of `+` applied so far, and the last call with its operands and result   *)
(***************************************************************************)
NoFilter == Filter("None", Zero, Zero)

Call(op, lhs, rhs, id, out, flag, num) ==
    [op |-> op, lhs |-> lhs, rhs |-> rhs, id |-> id, out |-> out,
     flag |-> flag, num |-> num]

NoCall == Call("none", NoFilter, NoFilter, Zero, NoFilter, FALSE, 0)

Reg(r, a, b) == IF r = "a" THEN a ELSE b

\* let f = <Type>::from_can_id(x)
FromCanId(r, x) ==
    LET f == from_can_id(mask_type, x)
    IN  /\ fa' = IF r = "a" THEN f ELSE fa
        /\ fb' = IF r = "b" THEN f ELSE fb
        /\ last' = Call("from_can_id", NoFilter, NoFilter, x, f, FALSE, 0)
        /\ UNCHANGED <<mask_type, nadds, frameVars>>

\* let f = <Type>::accept_all()
AcceptAll(r) ==
    LET f == accept_all(mask_type)
    IN  /\ fa' = IF r = "a" THEN f ELSE fa
        /\ fb' = IF r = "b" THEN f ELSE fb
        /\ last' = Call("accept_all", NoFilter, NoFilter, Zero, f, FALSE, 0)
        /\ UNCHANGED <<mask_type, nadds, frameVars>>

\* let f = l + r
Add(dst, l, r) ==
    /\ nadds < MaxAdds
    /\ \E f \in add(Reg(l, fa, fb), Reg(r, fa, fb)) :
        /\ fa' = IF dst = "a" THEN f ELSE fa
        /\ fb' = IF dst = "b" THEN f ELSE fb
        /\ last' = Call("add", Reg(l, fa, fb), Reg(r, fa, fb), Zero, f, FALSE, 0)
    /\ nadds' = nadds + 1
    /\ UNCHANGED <<mask_type, frameVars>>

\* fa.match_can_id(y)
MatchCanId(y) ==
    /\ last' = Call("match_can_id", fa, NoFilter, y, NoFilter, match_can_id(fa, y), 0)
    /\ UNCHANGED <<mask_type, fa, fb, nadds, frameVars>>

\* fa.weight()
Weight ==
    /\ last' = Call("weight", fa, NoFilter, Zero, NoFilter, FALSE, weight(fa))
    /\ UNCHANGED <<mask_type, fa, fb, nadds, frameVars>>

NoFrame == [kind |-> "None"]

NoFrameCall == [op |-> "none"]

NoText == [name |-> "None"]

InitFilter ==
    /\ mask_type \in MaskTypes
    /\ fa = accept_all(mask_type)
    /\ fb = accept_all(mask_type)
    /\ nadds = 0
    /\ last = NoCall
    /\ frame = NoFrame
    /\ call = NoFrameCall
    /\ text = NoText

NextFilter ==
    \/ \E r \in {"a", "b"}, x \in Ids(mask_type) : FromCanId(r, x)
    \/ \E r \in {"a", "b"} : AcceptAll(r)
    \/ \E dst \in {"a", "b"}, l \in {"a", "b"}, r \in {"a", "b"} : Add(dst, l, r)
    \/ \E y \in Candidates(mask_type) : MatchCanId(y)
    \/ Weight

SpecFilter == InitFilter /\ [][NextFilter]_vars

(***************************************************************************)
(* Properties of the filter algebra                                        *)
(***************************************************************************)
\* bit positions 0 .. length - 1 of the filter type
WidthBits(t) == 0 .. (FRAME_ID_LENGTH(t) - 1)

IsAdd == last.op = "add"

\* C1: the sum of two exact filters of one type, built from the identifiers
\* x and y, matches x and matches y.
C1_MergeOfExactMatchesBoth ==
    \A x \in Ids(mask_type), y \in Ids(mask_type) :
        (/\ IsAdd
         /\ last.lhs = from_can_id(mask_type, x)
         /\ last.rhs = from_can_id(mask_type, y))
        => /\ match_can_id(last.out, x)
           /\ match_can_id(last.out, y)

\* 0x7FF + 0xFFFFFABD, Standard: the operands differ and one was built from
\* an identifier with bits above the width
C1_Witness ==
    /\ IsAdd
    /\ mask_type = "Standard"
    /\ last.lhs = from_can_id("Standard", Bits(2047))
    /\ last.rhs = from_can_id("Standard", U32Bits \ Bits(1346))
    /\ match_can_id(last.out, U32Bits \ Bits(1346))

\* C2: every candidate matched by an operand of `+` is matched by the sum.
C2_MergeCoversOperands ==
    IsAdd =>
        \A y \in Candidates(mask_type) :
            (match_can_id(last.lhs, y) \/ match_can_id(last.rhs, y))
                => match_can_id(last.out, y)

\* C3: a bit of the width that is don't-care (mask bit 0) in an operand of
\* `+` is don't-care in the sum.
C3_DontCarePropagates ==
    IsAdd =>
        \A i \in WidthBits(mask_type) :
            (i \notin last.lhs.mask \/ i \notin last.rhs.mask)
                => i \notin last.out.mask

\* C4: the sum keeps the left operand's id; bit i of its mask is 1 exactly
\* when i is inside the width and bit i of am equals bit i of bm, so the
\* mask is the same with the operands exchanged; 0x7FF + 0x00F has mask
\* 0x00F and 0x1FFFCCFF + 0x1FFF33FF has mask 0x1FFF00FF.
C4_MergeMaskIsAgreement ==
    IsAdd =>
        LET am == BitAnd(last.lhs.can_id, last.lhs.mask)
            bm == BitAnd(last.rhs.can_id, last.rhs.mask)
        IN  /\ last.out.can_id = last.lhs.can_id
            /\ last.out.mask_type = last.lhs.mask_type
            /\ \A i \in U32Bits :
                   (i \in last.out.mask)
                       <=> (i \in WidthBits(mask_type) /\ ((i \in am) <=> (i \in bm)))
            /\ \A g \in add(last.rhs, last.lhs) : g.mask = last.out.mask
            /\ (/\ last.lhs = from_can_id("Standard", Bits(2047))
                /\ last.rhs = from_can_id("Standard", Bits(15)))
               => last.out.mask = Bits(15)
            /\ (/\ last.lhs = from_can_id("Extended", Bits(536857855))
                /\ last.rhs = from_can_id("Extended", Bits(536818687)))
               => last.out.mask = Bits(536805631)

\* 0x1FFFCCFF + 0x1FFF33FF
C4_Witness ==
    /\ IsAdd
    /\ last.lhs = from_can_id("Extended", Bits(536857855))
    /\ last.rhs = from_can_id("Extended", Bits(536818687))
    /\ last.out.mask = Bits(536805631)
    /\ last.out.can_id = Bits(536857855)

\* the width is cut into chunks of ChunkBits bit positions
ChunkBits == 4

Chunk(t, k) == {i \in WidthBits(t) : i \div ChunkBits = k}

Chunks(t) == 0 .. ((FRAME_ID_LENGTH(t) - 1) \div ChunkBits)

RECURSIVE Product(_, _)
Product(f, S) ==
    IF S = {} THEN 1
    ELSE LET k == CHOOSE k \in S : TRUE IN f[k] * Product(f, S \ {k})

\* y made to agree with f's id outside the chunk ch
InChunk(f, y, ch) == BitOr(f.can_id \ ch, BitAnd(y, ch))

\* the number of identifiers f matches among those that agree with f's id
\* outside chunk k
AcceptedInChunk(f, k) ==
    LET ch == Chunk(f.mask_type, k)
        outside == f.can_id \ ch
    IN  Cardinality({s \in SUBSET ch : match_can_id(f, BitOr(outside, s))})

\* match_can_id(f, y) is decided chunk by chunk, so the identifiers f
\* matches are the product of the ones it matches in each chunk
MatchIsChunkwise(f) ==
    \A y \in {BitAnd(c, FRAME_ID_MASK(f.mask_type)) : c \in Candidates(f.mask_type)} :
        match_can_id(f, y)
            <=> \A k \in Chunks(f.mask_type) :
                    match_can_id(f, InChunk(f, y, Chunk(f.mask_type, k)))

\* the number of identifiers 0 ..= width mask that f matches: counted one by
\* one for the 2^11 Standard identifiers, chunk by chunk for the Extended
AcceptedInRange(f) ==
    IF f.mask_type = "Standard"
    THEN Cardinality({y \in SUBSET WidthBits("Standard") : match_can_id(f, y)})
    ELSE Product([k \in Chunks(f.mask_type) |-> AcceptedInChunk(f, k)],
                 Chunks(f.mask_type))

\* C5: the weight of a filter built by from_can_id, accept_all and `+` is
\* the number of identifiers of the width's range it matches, and is 2^c
\* for c the number of 0 bits of the mask among the width's bit positions,
\* with c < 32; accept_all weighs 0x800 (Standard), 0x20000000 (Extended).
C5_WeightCountsAccepted ==
    last.op = "weight" =>
        LET f == last.lhs
            c == Cardinality(WidthBits(f.mask_type) \ f.mask)
        IN  /\ weight_counter(f) < U32Width
            /\ last.num = 2 ^ c
            /\ MatchIsChunkwise(f)
            /\ last.num = AcceptedInRange(f)
            /\ f = accept_all("Standard") => last.num = 2048
            /\ f = accept_all("Extended") => last.num = 536870912

\* the weight of a sum with some must-match and some don't-care bits
C5_Witness ==
    /\ last.op = "weight"
    /\ nadds > 0
    /\ last.lhs.mask # Zero
    /\ last.lhs.mask # FRAME_ID_MASK(mask_type)
    /\ last.num > 1

\* C6: the exact filter of x matches x, and matches y exactly when x and y
\* are equal after masking to the width.
C6_ExactFilterMatchesByMaskedValue ==
    \A x \in Ids(mask_type) :
        (last.op = "match_can_id" /\ last.lhs = from_can_id(mask_type, x))
            => /\ last.id = x => last.flag
               /\ last.flag <=> (BitAnd(x, FRAME_ID_MASK(mask_type))
                                   = BitAnd(last.id, FRAME_ID_MASK(mask_type)))

\* the exact filter of 0xFFFFFABD matches 0xABD cut to the width
C6_Witness ==
    /\ last.op = "match_can_id"
    /\ last.lhs = from_can_id(mask_type, U32Bits \ Bits(1346))
    /\ last.id # U32Bits \ Bits(1346)
    /\ last.flag

\* C7: accept_all has id 0 and mask 0 and matches every candidate, the ones
\* with bits above the width too.
C7_AcceptAllMatchesEverything ==
    /\ last.op = "accept_all" => (last.out.can_id = Zero /\ last.out.mask = Zero)
    /\ (last.op = "match_can_id" /\ last.lhs = accept_all(mask_type)) => last.flag

\* accept_all matches 0xFFFFFFFF
C7_Witness ==
    /\ last.op = "match_can_id"
    /\ last.lhs = accept_all(mask_type)
    /\ last.id = U32Bits
    /\ last.flag

(***************************************************************************)
(* src/src/frame.rs                                                        *)
(***************************************************************************)
IdTypes == {"Standard", "Extended"}

DataFrame(can_id, id_type, dlc, data) ==
    [kind |-> "DataFrame", can_id |-> can_id, id_type |-> id_type, dlc |-> dlc,
     data |-> data]

RemoteFrame(can_id, id_type, dlc) ==
    [kind |-> "RemoteFrame", can_id |-> can_id, id_type |-> id_type, dlc |-> dlc]

ErrorFrame(can_id, id_type) ==
    [kind |-> "ErrorFrame", can_id |-> can_id, id_type |-> id_type]

\* [0u8; 8]
ZeroData == [i \in 0 .. 7 |-> 0]

\* for (cd, d) in candata.iter_mut().zip(data.iter()) { *cd = *d }, from
\* position i on; data is a sequence, data[i + 1] is the slice's element i
RECURSIVE ZipCopy(_, _, _)
ZipCopy(candata, data, i) ==
    IF i >= 8 \/ i >= Len(data)
    THEN candata
    ELSE ZipCopy([candata EXCEPT ![i] = data[i + 1]], data, i + 1)

\* mutant: dlc is not limited to 8
new_data_frame_NoClamp(can_id, id_type, data) ==
    LET canid == BitAnd(can_id, IF id_type = "Standard"
                                THEN STANDARD_FRAME_ID_MASK
                                ELSE EXTENDED_FRAME_ID_MASK)
        candata == ZipCopy(ZeroData, data, 0)
    IN  DataFrame(canid, id_type, Len(data), candata)

new_data_frame(can_id, id_type, data) ==
    LET canid == BitAnd(can_id, IF id_type = "Standard"
                                THEN STANDARD_FRAME_ID_MASK
                                ELSE EXTENDED_FRAME_ID_MASK)
        candata == ZipCopy(ZeroData, data, 0)
        dlc == IF Len(data) > 8 THEN 8 ELSE Len(data)
    IN  DataFrame(canid, id_type, dlc, candata)

new_remote_frame(can_id, id_type, dlc) ==
    LET canid == BitAnd(can_id, IF id_type = "Standard"
                                THEN STANDARD_FRAME_ID_MASK
                                ELSE EXTENDED_FRAME_ID_MASK)
        dlc2 == IF dlc > 8 THEN 8 ELSE dlc
    IN  RemoteFrame(canid, id_type, dlc2)

(***************************************************************************)
(* Formatting: a text is a sequence of characters                          *)
(***************************************************************************)
HexDigit ==
    <<"0", "1", "2", "3", "4", "5", "6", "7", "8", "9", "A", "B", "C", "D", "E", "F">>

\* hex digit k of a u32, digit 0 the lowest
Nibble(b, k) ==
    (IF 4 * k \in b THEN 1 ELSE 0) + (IF 4 * k + 1 \in b THEN 2 ELSE 0)
        + (IF 4 * k + 2 \in b THEN 4 ELSE 0) + (IF 4 * k + 3 \in b THEN 8 ELSE 0)

\* {:X} of a u32: its hex digits, the highest first, no leading zeros
UpperHex(b) ==
    LET nz == {k \in 0 .. 7 : Nibble(b, k) # 0}
        top == IF nz = {} THEN 0 ELSE CHOOSE k \in nz : \A j \in nz : j <= k
    IN  [j \in 1 .. (top + 1) |-> HexDigit[Nibble(b, top + 1 - j) + 1]]

Zeros(n) == [j \in 1 .. n |-> "0"]

\* {:#0wX} of a u32: the prefix 0x, then zeros, then the digits; the prefix
\* counts in the width w
AltZeroPadUpperHex(b, w) ==
    LET digits == UpperHex(b)
        pad == IF w > 2 + Len(digits) THEN w - 2 - Len(digits) ELSE 0
    IN  <<"0", "x">> \o Zeros(pad) \o digits

\* {:02X} of a u8
ByteUpperHex(n) ==
    IF n < 16 THEN <<"0", HexDigit[n + 1]>>
    ELSE <<HexDigit[(n \div 16) + 1], HexDigit[(n % 16) + 1]>>

\* the can_id field of every variant
fmt_can_id(can_id, id_type) ==
    IF id_type = "Standard"
    THEN AltZeroPadUpperHex(can_id, 3)
    ELSE AltZeroPadUpperHex(can_id, 8)

Panicked == [name |-> "panic"]

\* impl Debug for CanFrame; &data.as_slice()[..dlc] panics when dlc > 8
fmt(f) ==
    CASE f.kind = "DataFrame" ->
            IF f.dlc > 8
            THEN Panicked
            ELSE [name |-> "DataFrame",
                  can_id |-> fmt_can_id(f.can_id, f.id_type),
                  id_type |-> f.id_type,
                  dlc |-> f.dlc,
                  data |-> [j \in 1 .. f.dlc |-> ByteUpperHex(f.data[j - 1])]]
      [] f.kind = "RemoteFrame" ->
            [name |-> "Remote",
             can_id |-> fmt_can_id(f.can_id, f.id_type),
             id_type |-> f.id_type,
             dlc |-> f.dlc]
      [] f.kind = "ErrorFrame" ->
            [name |-> "ErrorFrame",
             can_id |-> fmt_can_id(f.can_id, f.id_type),
             id_type |-> f.id_type]

(***************************************************************************)
(* Frame inputs                                                            *)
(***************************************************************************)
\* payload slices have 0 .. MaxPayloadLen bytes
MaxPayloadLen == 9

\* declared lengths 0 .. MaxDlcInput are among the sampled lengths
MaxDlcInput == 9

\* identifiers 0 .. MaxLowFrameId are among the sampled frame identifiers
MaxLowFrameId == 1

\* 0x07, 0xFF
ByteSamples == {7, 255}

Payloads == UNION {[1 .. n -> ByteSamples] : n \in 0 .. MaxPayloadLen}

DlcInputs == (0 .. MaxDlcInput) \cup {200, 255}

\* 0x1FFFFFFF, 0xFFFFFABD
FrameIds == {Bits(n) : n \in 0 .. MaxLowFrameId} \cup {Bits(536870911), U32Bits \ Bits(1346)}

\* the values of the enum CanFrame written as a variant with its fields
LiteralFrames ==
    {DataFrame(id, t, d, data) :
        id \in FrameIds, t \in IdTypes, d \in DlcInputs,
        data \in {ZeroData, [ZeroData EXCEPT ![0] = 255]}}
    \cup {RemoteFrame(id, t, d) : id \in FrameIds, t \in IdTypes, d \in DlcInputs}
    \cup {ErrorFrame(id, t) : id \in FrameIds, t \in IdTypes}

(***************************************************************************)
(* The frame program: a frame is built once, by the call recorded, and is   *)
(* an immutable value from then on; it can be rendered                     *)
(***************************************************************************)
\* CanFrame::new_data_frame(id, t, &p)
NewDataFrame(id, t, p) ==
    /\ frame = NoFrame
    /\ frame' = new_data_frame(id, t, p)
    /\ call' = [op |-> "new_data_frame", can_id |-> id, id_type |-> t, data |-> p]
    /\ text' = NoText
    /\ UNCHANGED filterVars

\* CanFrame::new_remote_frame(id, t, d)
NewRemoteFrame(id, t, d) ==
    /\ frame = NoFrame
    /\ frame' = new_remote_frame(id, t, d)
    /\ call' = [op |-> "new_remote_frame", can_id |-> id, id_type |-> t, dlc |-> d]
    /\ text' = NoText
    /\ UNCHANGED filterVars

\* CanFrame::ErrorFrame { can_id, id_type } and the other variants written
\* out: the enum's fields are set as given
CanFrameLiteral(f) ==
    /\ frame = NoFrame
    /\ frame' = f
    /\ call' = [op |-> "literal", can_id |-> f.can_id, id_type |-> f.id_type]
    /\ text' = NoText
    /\ UNCHANGED filterVars

\* format!("{:?}", frame)
Fmt ==
    /\ frame # NoFrame
    /\ text' = fmt(frame)
    /\ UNCHANGED <<frame, call, filterVars>>

InitFrame ==
    /\ mask_type = "Standard"
    /\ fa = accept_all(mask_type)
    /\ fb = accept_all(mask_type)
    /\ nadds = 0
    /\ last = NoCall
    /\ frame = NoFrame
    /\ call = NoFrameCall
    /\ text = NoText

\* a frame is built from sampled arguments
BuildDataFrame ==
    /\ frame = NoFrame
    /\ \E id \in FrameIds, t \in IdTypes, p \in Payloads : NewDataFrame(id, t, p)

BuildRemoteFrame ==
    /\ frame = NoFrame
    /\ \E id \in FrameIds, t \in IdTypes, d \in DlcInputs : NewRemoteFrame(id, t, d)

BuildLiteral ==
    /\ frame = NoFrame
    /\ \E f \in LiteralFrames : CanFrameLiteral(f)

NextFrame ==
    \/ BuildDataFrame
    \/ BuildRemoteFrame
    \/ BuildLiteral
    \/ Fmt

SpecFrame == InitFrame /\ [][NextFrame]_vars

\* the two programs share nothing; together:
Init == InitFilter

Next == NextFilter \/ NextFrame

Spec == Init /\ [][Next]_vars

(***************************************************************************)
(* Properties of the frame model                                           *)
(***************************************************************************)
Min(a, b) == IF a < b THEN a ELSE b

\* C8: every frame's can_id is the supplied identifier masked to the width,
\* every DataFrame and RemoteFrame has dlc in 0 .. 8, and new_remote_frame
\* sets dlc to min(d, 8).
C8_FramesAreNormalized ==
    frame # NoFrame =>
        /\ frame.can_id = BitAnd(call.can_id, FRAME_ID_MASK(frame.id_type))
        /\ frame.kind \in {"DataFrame", "RemoteFrame"} => frame.dlc \in 0 .. 8
        /\ call.op = "new_remote_frame" => frame.dlc = Min(call.dlc, 8)

\* C9: new_data_frame(id, w, p) is a DataFrame with dlc = min(len(p), 8),
\* data[i] = p[i] for i < dlc and data[i] = 0 for dlc <= i < 8.
C9_DataFrameCopiesPayload ==
    call.op = "new_data_frame" =>
        /\ frame.kind = "DataFrame"
        /\ frame.dlc = Min(Len(call.data), 8)
        /\ DOMAIN frame.data = 0 .. 7
        /\ \A i \in 0 .. 7 :
               frame.data[i] = IF i < frame.dlc THEN call.data[i + 1] ELSE 0

\* a payload of 9 bytes
C9_Witness ==
    /\ call.op = "new_data_frame"
    /\ Len(call.data) > 8
    /\ frame.dlc = 8
    /\ frame.data[7] = 255

\* C10: the rendering of a frame shows an identifier of the width's range as
\* 0x and exactly 3 (Standard) or 8 (Extended) hex digits, zero-padded.
C10_IdRenderedAtFixedWidth ==
    (text.name \notin {"None", "panic"}
        /\ frame.can_id \subseteq FRAME_ID_MASK(frame.id_type))
    => LET n == IF frame.id_type = "Standard" THEN 3 ELSE 8
       IN  /\ Len(text.can_id) = 2 + n
           /\ text.can_id[1] = "0"
           /\ text.can_id[2] = "x"
           /\ \A k \in 0 .. (n - 1) :
                  text.can_id[2 + n - k] = HexDigit[Nibble(frame.can_id, k) + 1]

====
